---- MODULE Spec2Model ----
(***************************************************************************)
(* streamlit_app.py: a Streamlit script that saves uploaded DICOM files    *)
(* to temp_dicom, stacks the CT slices into a volume, shows three          *)
(* orthogonal planes, overlays an RT dose grid and lists RT plan beams.    *)
(* The script is re-executed top to bottom on every UI event; one run is   *)
(* modelled as the steps save -> main -> display -> dose -> plan -> done.  *)
(***************************************************************************)
EXTENDS Integers, Sequences, FiniteSets, TLC

VARIABLES
    dir,             \* temp_dicom on disk: file name -> dataset stored under it
    uploaded_files,  \* the uploader widget's value in this run: <<[name, data]>>
    pc,              \* position of the current script run
    img3d,           \* <<>> (None) or <<volume>> returned by load_ct_slices
    aspects,         \* <<>> (None) or <<(ax, sag, cor)>>
    sliders,         \* <<>> or <<(axial, sagittal, coronal)>> of display_ct_slices
    page,            \* the elements this run has put on the page, in order
    error,           \* "" or the exception that aborted this run
    everUploaded,    \* history: name -> the bytes most recently uploaded under it
    arg,             \* input of the function applied alone (SpecZoom, SpecBeams)
    res              \* its result, <<>> before the call

vars == <<dir, uploaded_files, pc, img3d, aspects, sliders, page, error,
          everUploaded, arg, res>>

(***************************************************************************)
(* Bounds of the model.                                                    *)
(***************************************************************************)
\* files the uploader widget holds in one run
MaxUpload == 2
\* largest extent of a dose grid or CT volume axis tried on zoom
MaxDim == 3
\* longest BeamSequence tried on list_beams
MaxBeams == 2
\* fraction bits kept by the model's floating-point quotient
FracBits == 16

None == <<>>
Some(v) == <<v>>

(***************************************************************************)
(* Strings: str.upper, the `in` substring test, the "*.dcm" glob pattern.  *)
(***************************************************************************)
RECURSIVE Pow2(_)
Pow2(n) == IF n = 0 THEN 1 ELSE 2 * Pow2(n - 1)

Lower == <<"a","b","c","d","e","f","g","h","i","j","k","l","m",
           "n","o","p","q","r","s","t","u","v","w","x","y","z">>
UpperLetters == <<"A","B","C","D","E","F","G","H","I","J","K","L","M",
                  "N","O","P","Q","R","S","T","U","V","W","X","Y","Z">>

UpperChar(ch) ==
    IF \E i \in 1..26 : Lower[i] = ch
    THEN UpperLetters[CHOOSE i \in 1..26 : Lower[i] = ch]
    ELSE ch

RECURSIVE Upper(_)
Upper(s) ==
    IF Len(s) = 0 THEN ""
    ELSE UpperChar(SubSeq(s, 1, 1)) \o Upper(SubSeq(s, 2, Len(s)))

Contains(sub, s) ==
    \E i \in 1..(Len(s) - Len(sub) + 1) : SubSeq(s, i, i + Len(sub) - 1) = sub

GlobDcm(name) ==
    /\ Len(name) >= 4
    /\ SubSeq(name, Len(name) - 3, Len(name)) = ".dcm"
    /\ SubSeq(name, 1, 1) # "."

(***************************************************************************)
(* The files a user may upload.  A dataset is a record holding the DICOM   *)
(* attributes the script reads; hasattr(ds, a) is a \in DOMAIN ds.         *)
(***************************************************************************)
CtSlice(loc, ps, ss, px) ==
    [SliceLocation |-> loc, PixelSpacing |-> ps, SliceThickness |-> ss,
     pixel_array |-> px]

\* an RT dose file; of its pixel_array only the shape is modelled
DoseGrid(shape) == [DoseUnits |-> "GY", pixel_array |-> [shape |-> shape]]

ControlPoint(gantry, ssd) ==
    [GantryAngle |-> gantry, SourceToSurfaceDistance |-> ssd]

Beam(name, number, cps) ==
    [BeamName |-> name, BeamNumber |-> number, ControlPointSequence |-> cps]

RtPlan(beams) == [BeamSequence |-> beams]

\* gantry angles are in tenths of a degree, distances in millimetres
TwoBeamPlan ==
    RtPlan(<<Beam("PA", 2, <<ControlPoint(1800, 955), ControlPoint(1850, 900)>>),
             Beam("AP", 1, <<ControlPoint(0, 1000)>>)>>)

Names == {"ct1.dcm", "ct2.dcm", "ct3.dcm", "rtdose.dcm", "RTPLAN.dcm"}

\* spacings are in tenths of a millimetre
Versions(name) ==
    CASE name = "ct1.dcm" ->
           { CtSlice(10, <<5, 10>>, 25, <<<<1, 2, 3>>, <<4, 5, 6>>>>) }
      [] name = "ct2.dcm" ->
           { CtSlice(5, <<10, 10>>, 30, <<<<6, 5, 4>>, <<3, 2, 1>>>>),
             CtSlice(12, <<4, 6>>, 9, <<<<9, 8, 7>>>>) }
      [] name = "ct3.dcm" ->
           { CtSlice(15, <<5, 10>>, 25, <<<<0, 1, 0>>, <<1, 0, 1>>>>),
             CtSlice(10, <<8, 6>>, 20, <<<<2, 2, 2>>, <<3, 3, 3>>>>) }
      [] name = "rtdose.dcm" ->
           { DoseGrid(<<3, 2, 2>>) }
      [] name = "RTPLAN.dcm" ->
           { TwoBeamPlan }

Uploadable == UNION {{[name |-> n, data |-> d] : d \in Versions(n)} : n \in Names}

RECURSIVE SeqsUpTo(_, _)
SeqsUpTo(S, n) ==
    IF n = 0 THEN {<<>>}
    ELSE LET shorter == SeqsUpTo(S, n - 1)
         IN  shorter \cup {Append(q, x) : q \in {p \in shorter : Len(p) = n - 1}, x \in S}

RECURSIVE Perms(_)
Perms(S) ==
    IF S = {} THEN {<<>>}
    ELSE UNION {{<<x>> \o p : p \in Perms(S \ {x})} : x \in S}

\* every order in which a directory listing can return a set of names
Enumerations == [S \in SUBSET Names |-> Perms(S)]

\* what the uploader widget can hold: it keeps same-named files apart
UploadChoices == SeqsUpTo(Uploadable, MaxUpload)

(***************************************************************************)
(* The upload handler.                                                     *)
(***************************************************************************)
\* history: the names handed over so far, each with the last bytes seen for it
LastUpload(files, name) ==
    files[CHOOSE i \in DOMAIN files :
            /\ files[i].name = name
            /\ \A j \in DOMAIN files : files[j].name = name => j <= i].data

Remember(seen, files) ==
    LET now == {files[i].name : i \in DOMAIN files}
    IN  [n \in DOMAIN seen \cup now |-> IF n \in now THEN LastUpload(files, n) ELSE seen[n]]

WriteFile(d, f) ==
    [n \in DOMAIN d \cup {f.name} |-> IF n = f.name THEN f.data ELSE d[n]]

\* the directory emptied before the files of this run are written
SaveAllCleared(d, files) ==
    [n \in {files[i].name : i \in DOMAIN files} |-> LastUpload(files, n)]

RECURSIVE SaveAll(_, _)
SaveAll(d, files) ==
    IF files = <<>> THEN d
    ELSE SaveAll(WriteFile(d, Head(files)), Tail(files))

Element(kind, text, data) == [kind |-> kind, text |-> text, data |-> data]

Init ==
    /\ dir = <<>>
    /\ uploaded_files = <<>>
    /\ pc = "top"
    /\ img3d = None
    /\ aspects = None
    /\ sliders = None
    /\ page = <<>>
    /\ error = ""
    /\ everUploaded = <<>>
    /\ arg = <<>>
    /\ res = <<>>

\* A UI event (an upload, a slider move) starts the script again from the top;
\* nothing the previous run computed survives it.
Rerun ==
    /\ pc \in {"done", "aborted"}
    /\ pc' = "top"
    /\ uploaded_files' = <<>>
    /\ img3d' = None
    /\ aspects' = None
    /\ sliders' = None
    /\ page' = <<>>
    /\ error' = ""
    /\ UNCHANGED <<dir, everUploaded, arg, res>>

\* line 18: the uploader widget returns the files it holds in this run
FileUploader ==
    /\ pc = "top"
    /\ \E files \in UploadChoices : uploaded_files' = files
    /\ pc' = "save"
    /\ UNCHANGED <<dir, img3d, aspects, sliders, page, error, everUploaded, arg, res>>

\* line 25-32
SaveUploads ==
    /\ pc = "save"
    /\ dir' = SaveAll(dir, uploaded_files)
    /\ page' = IF uploaded_files # <<>>
               THEN Append(page, Element("success", "Uploaded files successfully!",
                                         <<Len(uploaded_files)>>))
               ELSE page
    /\ everUploaded' = Remember(everUploaded, uploaded_files)
    /\ pc' = "main"
    /\ UNCHANGED <<uploaded_files, img3d, aspects, sliders, error, arg, res>>

(***************************************************************************)
(* load_ct_slices.                                                         *)
(***************************************************************************)
RECURSIVE Gcd(_, _)
Gcd(a, b) == IF b = 0 THEN a ELSE Gcd(b, a % b)

\* the quotient n / d, kept exact as a fraction in lowest terms
Quot(n, d) == <<n \div Gcd(n, d), d \div Gcd(n, d)>>

HasSliceLocation(ds) == "SliceLocation" \in DOMAIN ds

\* glob.glob(os.path.join(temp_dir, "*.dcm")): the matching names of d
GlobTable == [n \in Names |-> GlobDcm(n)]

DicomFiles(d) == {n \in DOMAIN d : GlobTable[n]}

\* the first enumerated file passed over
ReadSlicesSkipFirst(d, order) ==
    SelectSeq([i \in 1..(Len(order) - 1) |-> d[order[i + 1]]], HasSliceLocation)

\* the datasets read in enumeration order, those without SliceLocation dropped
ReadSlices(d, order) ==
    SelectSeq([i \in DOMAIN order |-> d[order[i]]], HasSliceLocation)

\* list.sort(key=SliceLocation): stable, ascending
RECURSIVE InsertByLocation(_, _)
InsertByLocation(sorted, s) ==
    IF sorted = <<>> THEN <<s>>
    ELSE IF sorted[Len(sorted)].SliceLocation <= s.SliceLocation
         THEN Append(sorted, s)
         ELSE Append(InsertByLocation(SubSeq(sorted, 1, Len(sorted) - 1), s),
                     sorted[Len(sorted)])

\* the sort left out: the slices stay in enumeration order
SortByLocationSkipped(slices) == slices

RECURSIVE SortByLocation(_)
SortByLocation(slices) ==
    IF slices = <<>> THEN <<>>
    ELSE InsertByLocation(SortByLocation(SubSeq(slices, 1, Len(slices) - 1)),
                          slices[Len(slices)])

ArrayShape(px) == <<Len(px), Len(px[1])>>

\* numpy's rule for img3d[:, :, i] = px with img3d[:, :, i] of shape (R, C)
Broadcastable(px, R, C) ==
    /\ ArrayShape(px)[1] \in {1, R}
    /\ ArrayShape(px)[2] \in {1, C}

\* element (r, c) of px stretched to (R, C): an axis of extent 1 is repeated
BroadcastAt(px, r, c) ==
    px[IF ArrayShape(px)[1] = 1 THEN 1 ELSE r][IF ArrayShape(px)[2] = 1 THEN 1 ELSE c]

Broadcast(px, R, C) == [r \in 1..R |-> [c \in 1..C |-> BroadcastAt(px, r, c)]]

\* sagittal and coronal doubled
AspectsDoubled(first) ==
    LET ps == first.PixelSpacing
        ss == first.SliceThickness
    IN  <<Quot(ps[2], ps[1]), Quot(2 * ss, ps[1]), Quot(2 * ss, ps[1])>>

Aspects(first) ==
    LET ps == first.PixelSpacing
        ss == first.SliceThickness
    IN  <<Quot(ps[2], ps[1]), Quot(ss, ps[1]), Quot(ss, ps[1])>>

\* the volume: shape (R, C, N) and data[r][c][i], all indices from 1
Stack(slices) ==
    LET R == ArrayShape(slices[1].pixel_array)[1]
        C == ArrayShape(slices[1].pixel_array)[2]
        N == Len(slices)
    IN  [shape |-> <<R, C, N>>,
         data  |-> [r \in 1..R |-> [c \in 1..C |-> [i \in 1..N |->
                       BroadcastAt(slices[i].pixel_array, r, c)]]]]

Stackable(slices) ==
    \A i \in DOMAIN slices :
        Broadcastable(slices[i].pixel_array,
                      ArrayShape(slices[1].pixel_array)[1],
                      ArrayShape(slices[1].pixel_array)[2])

\* what load_ct_slices returns for one enumeration order of temp_dicom
LoadResult(d, order) ==
    LET slices == SortByLocation(ReadSlices(d, order))
    IN  IF slices = <<>>
        THEN [status |-> "empty", img3d |-> None, aspects |-> None]
        ELSE IF ~Stackable(slices)
        THEN [status |-> "ValueError", img3d |-> None, aspects |-> None]
        ELSE [status |-> "ok", img3d |-> Some(Stack(slices)),
              aspects |-> Some(Aspects(slices[1]))]

\* line 177-179: the script calls the loader when the uploader holds files
LoadCtSlices ==
    /\ pc = "main"
    /\ uploaded_files # <<>>
    /\ \E order \in Enumerations[DicomFiles(dir)] :
         LET r == LoadResult(dir, order)
         IN  /\ img3d' = r.img3d
             /\ aspects' = r.aspects
             /\ error' = IF r.status = "ValueError" THEN "ValueError" ELSE ""
             /\ page' = IF r.status = "empty"
                        THEN Append(page, Element("error", "No valid CT slices found.", <<>>))
                        ELSE page
             /\ pc' = CASE r.status = "ok" -> "display"
                        [] r.status = "empty" -> "done"
                        [] OTHER -> "aborted"
    /\ UNCHANGED <<dir, uploaded_files, sliders, everUploaded, arg, res>>

\* line 183-184: nothing uploaded in this run
ShowInfo ==
    /\ pc = "main"
    /\ uploaded_files = <<>>
    /\ page' = Append(page, Element("info",
          "Please upload DICOM CT slices, RT Dose, RT Structure, and RT Plan files.", <<>>))
    /\ pc' = "done"
    /\ UNCHANGED <<dir, uploaded_files, img3d, aspects, sliders, error, everUploaded, arg, res>>

(***************************************************************************)
(* display_ct_slices.                                                      *)
(***************************************************************************)
\* st.slider(label, lo, hi, value): the default or any position of the handle
SliderValues(lo, hi, value) == (lo..hi) \cup {value}

\* the slider's upper end one past the last index
AxialMaxOffByOne(shape) == shape[3]

AxialMax(shape) == shape[3] - 1
SagittalMax(shape) == shape[1] - 1
CoronalMax(shape) == shape[2] - 1

AxialDefault(shape) == shape[3] \div 2
SagittalDefault(shape) == shape[1] \div 2
CoronalDefault(shape) == shape[2] \div 2

\* the three plane extractions are within bounds for 0-based indices idx
InBounds(shape, idx) ==
    /\ 0 <= idx[1] /\ idx[1] < shape[3]
    /\ 0 <= idx[2] /\ idx[2] < shape[1]
    /\ 0 <= idx[3] /\ idx[3] < shape[2]

\* img3d[:, :, a]
AxialPlane(v, a) ==
    [r \in 1..v.shape[1] |-> [c \in 1..v.shape[2] |-> v.data[r][c][a + 1]]]

\* img3d[s, :, :]
SagittalPlane(v, s) ==
    [c \in 1..v.shape[2] |-> [i \in 1..v.shape[3] |-> v.data[s + 1][c][i]]]

\* img3d[:, c, :]
CoronalPlane(v, c) ==
    [r \in 1..v.shape[1] |-> [i \in 1..v.shape[3] |-> v.data[r][c + 1][i]]]

\* np.rot90: a quarter turn counterclockwise, (rows, cols) -> (cols, rows)
Rot90(m) ==
    LET rows == Len(m)
        cols == Len(m[1])
    IN  [i \in 1..cols |-> [j \in 1..rows |-> m[j][cols + 1 - i]]]

\* one subplot: the image, its aspect and its title "<plane> Slice k/total"
Subplot(image, aspect, plane, k, total) ==
    [image |-> image, aspect |-> aspect, title |-> <<plane, k, total>>]

CtFigure(v, asp, idx) ==
    <<Subplot(AxialPlane(v, idx[1]), asp[1], "Axial", idx[1] + 1, v.shape[3]),
      Subplot(Rot90(SagittalPlane(v, idx[2])), asp[2], "Sagittal", idx[2] + 1, v.shape[1]),
      Subplot(Rot90(CoronalPlane(v, idx[3])), asp[3], "Coronal", idx[3] + 1, v.shape[2])>>

DisplayCtSlices ==
    /\ pc = "display"
    /\ LET v == img3d[1]
       IN  \E a \in SliderValues(0, AxialMax(v.shape), AxialDefault(v.shape)),
              s \in SliderValues(0, SagittalMax(v.shape), SagittalDefault(v.shape)),
              c \in SliderValues(0, CoronalMax(v.shape), CoronalDefault(v.shape)) :
             /\ sliders' = Some(<<a, s, c>>)
             /\ IF InBounds(v.shape, <<a, s, c>>)
                THEN /\ page' = Append(page, Element("pyplot", "ct",
                                                     CtFigure(v, aspects[1], <<a, s, c>>)))
                     /\ pc' = "dose"
                     /\ error' = ""
                ELSE /\ page' = page
                     /\ pc' = "aborted"
                     /\ error' = "IndexError"
    /\ UNCHANGED <<dir, uploaded_files, img3d, aspects, everUploaded, arg, res>>

\* Streamlit releases that check the range refuse a slider whose min_value
\* equals its max_value (an axis of extent 1) with a StreamlitAPIException.
SliderRejects ==
    /\ pc = "display"
    /\ \E k \in 1..3 : img3d[1].shape[k] = 1
    /\ pc' = "aborted"
    /\ error' = "StreamlitAPIException"
    /\ UNCHANGED <<dir, uploaded_files, img3d, aspects, sliders, page, everUploaded, arg, res>>

(***************************************************************************)
(* overlay_rt_dose_on_ct.                                                  *)
(***************************************************************************)
\* c / d in floating point: the nearest value with FracBits fraction bits,
\* as a count of units of 2^-FracBits
FloatDiv(c, d) == (2 * c * Pow2(FracBits) + d) \div (2 * d)

\* int(round(x)) for x = n units of 2^-FracBits: to nearest, a half to even
RoundHalfEven(n) ==
    LET one == Pow2(FracBits)
        whole == n \div one
        rest == n % one
    IN  IF 2 * rest < one THEN whole
        ELSE IF 2 * rest > one THEN whole + 1
        ELSE IF whole % 2 = 0 THEN whole ELSE whole + 1

\* int(d_k * zoom_k): the product cut off instead of rounded
ZoomExtentTruncated(d, factor) == (d * factor) \div Pow2(FracBits)

\* scipy.ndimage.zoom: extent k of the output is int(round(d_k * zoom_k))
ZoomExtent(d, factor) == RoundHalfEven(d * factor)

\* the shape of zoom(dose_array, (c0 / d0, c1 / d1, c2 / d2))
ZoomShape(d, c) == [k \in 1..3 |-> ZoomExtent(d[k], FloatDiv(c[k], d[k]))]

\* "RTDOSE" in file_name.upper(), "RTPLAN" in file_name.upper(), per name
DoseNameTable == [n \in Names |-> Contains("RTDOSE", Upper(n))]
PlanNameTable == [n \in Names |-> Contains("RTPLAN", Upper(n))]

IsDoseName(name) == DoseNameTable[name]
IsPlanName(name) == PlanNameTable[name]

\* the names the search loop over os.listdir can stop at
DoseFiles(d) == {n \in DOMAIN d : IsDoseName(n)}
PlanFiles(d) == {n \in DOMAIN d : IsPlanName(n)}

DoseFigure(v, asp, idx, doseShape) ==
    [ct |-> <<Subplot(AxialPlane(v, idx[1]), asp[1], "Axial", idx[1] + 1, 0),
              Subplot(Rot90(SagittalPlane(v, idx[2])), asp[2], "Sagittal", idx[2] + 1, 0),
              Subplot(Rot90(CoronalPlane(v, idx[3])), asp[3], "Coronal", idx[3] + 1, 0)>>,
     dose_rescaled |-> doseShape]

\* the element the dose overlay puts on the page when it reads dataset ds
DosePanel(ds, v, asp, idx) ==
    LET shape == ZoomShape(ds.pixel_array.shape, v.shape)
    IN  IF InBounds(shape, idx)
        THEN Element("pyplot", "dose", DoseFigure(v, asp, idx, shape))
        ELSE Element("raise", "IndexError", <<>>)

\* the missing file raised instead of reported
DoseNotFoundRaises == Element("raise", "FileNotFoundError", <<>>)

DoseNotFound == Element("error", "RT Dose file not found.", <<>>)

OverlayRtDoseOnCt ==
    /\ pc = "dose"
    /\ \E el \in IF DoseFiles(dir) = {}
                 THEN {DoseNotFound}
                 ELSE {DosePanel(dir[n], img3d[1], aspects[1], sliders[1]) : n \in DoseFiles(dir)} :
         IF el.kind = "raise"
         THEN /\ page' = page
              /\ pc' = "aborted"
              /\ error' = el.text
         ELSE /\ page' = Append(page, el)
              /\ pc' = "plan"
              /\ error' = ""
    /\ UNCHANGED <<dir, uploaded_files, img3d, aspects, sliders, everUploaded, arg, res>>

(***************************************************************************)
(* list_beams and load_rt_plan_and_extract_tags.                           *)
(***************************************************************************)
Digits == <<"0", "1", "2", "3", "4", "5", "6", "7", "8", "9">>

\* str(n) for n >= 0
RECURSIVE IntStr(_)
IntStr(n) == IF n < 10 THEN Digits[n + 1] ELSE IntStr(n \div 10) \o Digits[(n % 10) + 1]

RECURSIVE Spaces(_)
Spaces(n) == IF n <= 0 THEN "" ELSE " " \o Spaces(n - 1)

\* format(s, "^{w}s"): centred, the odd blank on the right
Center(s, w) ==
    LET pad == w - Len(s)
    IN  IF pad <= 0 THEN s ELSE Spaces(pad \div 2) \o s \o Spaces(pad - (pad \div 2))

\* right-aligned in w columns, as numbers are
RJust(s, w) == Spaces(w - Len(s)) \o s

\* format(x, ".1f") for x = t tenths, t >= 0
Fixed1(t) == IntStr(t \div 10) \o "." \o IntStr(t % 10)

Header ==
    Center("Beam name", 13) \o " " \o Center("Number", 8) \o " "
        \o Center("Gantry", 8) \o " " \o Center("SSD (cm)", 11)

\* the last control point taken for the first
CpLast(beam) == beam.ControlPointSequence[Len(beam.ControlPointSequence)]

\* the control point a row is taken from
Cp0(beam) == beam.ControlPointSequence[1]

\* SourceToSurfaceDistance / 10 in tenths: millimetres are tenths of a centimetre
Ssd(cp) == cp.SourceToSurfaceDistance

BeamRow(beam) ==
    Center(beam.BeamName, 13) \o " " \o RJust(IntStr(beam.BeamNumber), 8) \o " "
        \o RJust(Fixed1(Cp0(beam).GantryAngle), 8) \o " " \o RJust(Fixed1(Ssd(Cp0(beam))), 8)

\* the loop of list_beams: one line appended per beam of ds.BeamSequence
BeamLines(ds) == <<Header>> \o [k \in DOMAIN ds.BeamSequence |-> BeamRow(ds.BeamSequence[k])]

RECURSIVE Join(_, _)
Join(sep, lines) ==
    IF lines = <<>> THEN ""
    ELSE IF Len(lines) = 1 THEN lines[1]
    ELSE lines[1] \o sep \o Join(sep, Tail(lines))

list_beams(ds) == Join("\n", BeamLines(ds))

PlanNotFound == Element("error", "RT Plan file not found.", <<>>)

PlanPanel(ds) == Element("text", "RT Plan Beam Information:", <<list_beams(ds)>>)

LoadRtPlanAndExtractTags ==
    /\ pc = "plan"
    /\ \E el \in IF PlanFiles(dir) = {}
                 THEN {PlanNotFound}
                 ELSE {PlanPanel(dir[n]) : n \in PlanFiles(dir)} :
         page' = Append(page, el)
    /\ pc' = "done"
    /\ UNCHANGED <<dir, uploaded_files, img3d, aspects, sliders, error, everUploaded, arg, res>>

Next ==
    \/ Rerun
    \/ FileUploader
    \/ SaveUploads
    \/ LoadCtSlices
    \/ ShowInfo
    \/ DisplayCtSlices
    \/ SliderRejects
    \/ OverlayRtDoseOnCt
    \/ LoadRtPlanAndExtractTags

Spec == Init /\ [][Next]_vars

(***************************************************************************)
(* zoom's output shape on its own: every dose grid shape against every CT  *)
(* volume shape up to MaxDim per axis.                                     *)
(***************************************************************************)
Shapes3 == {<<a, b, c>> : a \in 1..MaxDim, b \in 1..MaxDim, c \in 1..MaxDim}

InitZoom ==
    /\ dir = <<>>
    /\ uploaded_files = <<>>
    /\ pc = "zoom"
    /\ img3d = None
    /\ aspects = None
    /\ sliders = None
    /\ page = <<>>
    /\ error = ""
    /\ everUploaded = <<>>
    /\ arg \in {<<d, c>> : d \in Shapes3, c \in Shapes3}
    /\ res = <<>>

\* line 102-106 with dose_array.shape = arg[1] and img3d.shape = arg[2]
Zoom ==
    /\ pc = "zoom"
    /\ res' = Some(ZoomShape(arg[1], arg[2]))
    /\ pc' = "zoomed"
    /\ UNCHANGED <<dir, uploaded_files, img3d, aspects, sliders, page, error,
                   everUploaded, arg>>

NextZoom == Zoom

SpecZoom == InitZoom /\ [][NextZoom]_vars

(***************************************************************************)
(* list_beams on its own: every plan of up to MaxBeams beams.              *)
(***************************************************************************)
BeamChoices ==
    {Beam(name, number, cps) :
        name \in {"AP", "Left Lateral"},
        number \in {1, 12},
        cps \in {<<ControlPoint(0, 1000)>>,
                 <<ControlPoint(1805, 955), ControlPoint(900, 1000)>>}}

InitBeams ==
    /\ dir = <<>>
    /\ uploaded_files = <<>>
    /\ pc = "beams"
    /\ img3d = None
    /\ aspects = None
    /\ sliders = None
    /\ page = <<>>
    /\ error = ""
    /\ everUploaded = <<>>
    /\ arg \in {RtPlan(beams) : beams \in SeqsUpTo(BeamChoices, MaxBeams)}
    /\ res = <<>>

\* line 170: beam_info = list_beams(ds)
ListBeams ==
    /\ pc = "beams"
    /\ res' = Some(list_beams(arg))
    /\ pc' = "listed"
    /\ UNCHANGED <<dir, uploaded_files, img3d, aspects, sliders, page, error,
                   everUploaded, arg>>

NextBeams == ListBeams

SpecBeams == InitBeams /\ [][NextBeams]_vars

(***************************************************************************)
(* Vocabulary of the properties.                                           *)
(***************************************************************************)
\* the slice files of the directory: *.dcm names whose dataset has a position
SliceFiles(d) == {n \in DicomFiles(d) : HasSliceLocation(d[n])}

DistinctPositions(d) ==
    \A m, n \in SliceFiles(d) : m # n => d[m].SliceLocation # d[n].SliceLocation

UniformShapes(d) ==
    \A m, n \in SliceFiles(d) : ArrayShape(d[m].pixel_array) = ArrayShape(d[n].pixel_array)

\* the slice file with exactly i slice files at a smaller position
FileOfRank(d, i) ==
    CHOOSE n \in SliceFiles(d) :
        Cardinality({m \in SliceFiles(d) : d[m].SliceLocation < d[n].SliceLocation}) = i

\* the script has returned from load_ct_slices with a volume
Loaded == pc \in {"display", "dose", "plan", "done"} /\ img3d # None

\* the script has returned from display_ct_slices
Displayed == pc \in {"dose", "plan", "done"} /\ sliders # None

(***************************************************************************)
(* Reading a printed table back: split("\n"), strip(), int(), float().     *)
(***************************************************************************)
RECURSIVE SplitLines(_)
SplitLines(s) ==
    IF ~Contains("\n", s) THEN <<s>>
    ELSE LET i == CHOOSE k \in 1..Len(s) :
                    /\ SubSeq(s, k, k) = "\n"
                    /\ \A j \in 1..(k - 1) : SubSeq(s, j, j) # "\n"
         IN  <<SubSeq(s, 1, i - 1)>> \o SplitLines(SubSeq(s, i + 1, Len(s)))

RECURSIVE Strip(_)
Strip(s) ==
    IF Len(s) = 0 THEN s
    ELSE IF SubSeq(s, 1, 1) = " " THEN Strip(SubSeq(s, 2, Len(s)))
    ELSE IF SubSeq(s, Len(s), Len(s)) = " " THEN Strip(SubSeq(s, 1, Len(s) - 1))
    ELSE s

DigitValue(ch) == (CHOOSE i \in 1..10 : Digits[i] = ch) - 1

RECURSIVE ParseNat(_)
ParseNat(s) ==
    IF Len(s) = 1 THEN DigitValue(s)
    ELSE 10 * ParseNat(SubSeq(s, 1, Len(s) - 1)) + DigitValue(SubSeq(s, Len(s), Len(s)))

\* "ddd.d" as a number of tenths
ParseTenths(s) ==
    10 * ParseNat(SubSeq(s, 1, Len(s) - 2)) + DigitValue(SubSeq(s, Len(s), Len(s)))

(***************************************************************************)
(* C1.  For slice files at pairwise distinct positions (all of one pixel   *)
(* array shape), whatever order the directory is enumerated in, the volume *)
(* has one plane per slice file, plane i of the slice axis is the pixel    *)
(* array of the file with the (i+1)-th smallest SliceLocation, and the     *)
(* axial image shown for slider index i is that pixel array.               *)
(***************************************************************************)
C1_AxialOrderedByPosition ==
    (Loaded /\ DistinctPositions(dir) /\ UniformShapes(dir)) =>
        LET v == img3d[1]
            N == Cardinality(SliceFiles(dir))
        IN  /\ v.shape[3] = N
            /\ \A i \in 0..(N - 1) :
                 [r \in 1..v.shape[1] |-> [c \in 1..v.shape[2] |-> v.data[r][c][i + 1]]]
                    = dir[FileOfRank(dir, i)].pixel_array
            /\ Displayed =>
                 page[2].data[1].image = dir[FileOfRank(dir, sliders[1][1])].pixel_array

\* positions 10, 5, 15 under ct1, ct2, ct3: axial index 1 shows the slice at 10
C1_Witness ==
    /\ Displayed
    /\ {dir[n].SliceLocation : n \in SliceFiles(dir)} = {5, 10, 15}
    /\ UniformShapes(dir)
    /\ sliders[1][1] = 1
    /\ page[2].data[1].image = <<<<1, 2, 3>>, <<4, 5, 6>>>>

(***************************************************************************)
(* C2.  For every dose grid shape (d0, d1, d2) and CT volume shape         *)
(* (c0, c1, c2), the grid zoomed by the factors c_k / d_k has exactly the  *)
(* shape (c0, c1, c2).                                                     *)
(***************************************************************************)
C2_ZoomedShapeIsCtShape ==
    pc = "zoomed" => \A k \in 1..3 : res[1][k] = arg[2][k]

\* a grid of (3, 1, 2) against a volume of (1, 3, 3): 1/3 is not exact
C2_Witness ==
    /\ pc = "zoomed"
    /\ arg = <<(<<3, 1, 2>>), (<<1, 3, 3>>)>>
    /\ res[1][1] = 1 /\ res[1][2] = 3 /\ res[1][3] = 3

(***************************************************************************)
(* C5.  For a plan of B beams list_beams returns B + 1 lines: the header,  *)
(* then one row per beam in the order of BeamSequence, row k carrying beam *)
(* k's name, number, the gantry angle of its first control point and that  *)
(* control point's source-to-surface distance divided by 10.               *)
(***************************************************************************)
C5_BeamTable ==
    pc = "listed" =>
        LET lines == SplitLines(res[1])
            beams == arg.BeamSequence
        IN  /\ Len(lines) = Len(beams) + 1
            /\ lines[1] = "  Beam name    Number   Gantry   SSD (cm)  "
            /\ \A k \in DOMAIN beams :
                 LET row == lines[k + 1]
                     cp == beams[k].ControlPointSequence[1]
                 IN  /\ Strip(SubSeq(row, 1, 13)) = beams[k].BeamName
                     /\ ParseNat(Strip(SubSeq(row, 15, 22))) = beams[k].BeamNumber
                     /\ ParseTenths(Strip(SubSeq(row, 24, 31))) = cp.GantryAngle
                     \* the printed centimetres, in tenths, are the millimetres
                     /\ ParseTenths(Strip(SubSeq(row, 33, 40))) = cp.SourceToSurfaceDistance

\* two beams listed against the order of their numbers, the first with two
\* control points
C5_Witness ==
    /\ pc = "listed"
    /\ Len(arg.BeamSequence) = 2
    /\ arg.BeamSequence[1].BeamNumber > arg.BeamSequence[2].BeamNumber
    /\ Len(arg.BeamSequence[1].ControlPointSequence) = 2
    /\ Len(SplitLines(res[1])) = 3

(***************************************************************************)
(* More vocabulary: what a run would show on another directory.            *)
(***************************************************************************)
\* the names holding "RTDOSE" / "RTPLAN" in any letter case
DoseNamed == {n \in Names : Contains("RTDOSE", Upper(n))}
PlanNamed == {n \in Names : Contains("RTPLAN", Upper(n))}

NoDoseFile(d) == DOMAIN d \cap DoseNamed = {}
NoPlanFile(d) == DOMAIN d \cap PlanNamed = {}

\* everything load_ct_slices can return on directory d
LoadOutcomes(d) == {LoadResult(d, order) : order \in Enumerations[DicomFiles(d)]}

\* everything the plan summarizer can put on the page for directory d
PlanOutcomes(d) ==
    IF PlanFiles(d) = {} THEN {PlanNotFound} ELSE {PlanPanel(d[n]) : n \in PlanFiles(d)}

\* everything the dose overlay can put on the page for directory d
DoseOutcomes(d, v, asp, idx) ==
    IF DoseFiles(d) = {} THEN {DoseNotFound}
    ELSE {DosePanel(d[n], v, asp, idx) : n \in DoseFiles(d)}

\* directory d with file name holding data
WithFile(d, name, data) ==
    [n \in DOMAIN d \cup {name} |-> IF n = name THEN data ELSE d[n]]

ErrorLine(text) == [kind |-> "error", text |-> text, data |-> <<>>]

\* the fraction f = <<p, q>> is n / d
IsQuotient(f, n, d) == f[1] * d = f[2] * n

\* the slice files a stable ascending sort can put first
FirstFiles(d) ==
    {n \in SliceFiles(d) : \A m \in SliceFiles(d) : d[n].SliceLocation <= d[m].SliceLocation}

(***************************************************************************)
(* C3.  In a run with a CT volume, a directory with no RTDOSE name makes   *)
(* the dose overlay append "RT Dose file not found." and go on to the plan *)
(* summarizer; a directory with no RTPLAN name makes the plan summarizer   *)
(* append "RT Plan file not found." and end the run normally; and what the *)
(* loader and the other of plan/dose can show is what they could show with *)
(* the missing dose or plan file present.                                  *)
(***************************************************************************)
C3_OthersUnaffected ==
    /\ pc = "display" =>
          /\ NoDoseFile(dir) =>
               \A f \in Versions("rtdose.dcm") :
                   LoadOutcomes(WithFile(dir, "rtdose.dcm", f)) = LoadOutcomes(dir)
          /\ NoPlanFile(dir) =>
               \A f \in Versions("RTPLAN.dcm") :
                   LoadOutcomes(WithFile(dir, "RTPLAN.dcm", f)) = LoadOutcomes(dir)
    /\ (pc = "done" /\ img3d # None) =>
          /\ NoDoseFile(dir) =>
               \A f \in Versions("rtdose.dcm") :
                   PlanOutcomes(WithFile(dir, "rtdose.dcm", f)) = PlanOutcomes(dir)
          /\ NoPlanFile(dir) =>
               \A f \in Versions("RTPLAN.dcm") :
                   DoseOutcomes(WithFile(dir, "RTPLAN.dcm", f), img3d[1], aspects[1], sliders[1])
                      = DoseOutcomes(dir, img3d[1], aspects[1], sliders[1])

C3_MissingFileReported ==
    /\ [][/\ (pc = "dose" /\ NoDoseFile(dir)) =>
                /\ pc' = "plan"
                /\ error' = ""
                /\ page' = Append(page, ErrorLine("RT Dose file not found."))
          /\ (pc = "plan" /\ NoPlanFile(dir)) =>
                /\ pc' = "done"
                /\ error' = ""
                /\ page' = Append(page, ErrorLine("RT Plan file not found."))]_vars
    /\ []C3_OthersUnaffected

\* a finished run without a dose file: CT figure, dose message, beam table
C3_Witness ==
    /\ pc = "done"
    /\ error = ""
    /\ NoDoseFile(dir)
    /\ ~NoPlanFile(dir)
    /\ Len(page) = 4
    /\ page[2].kind = "pyplot"
    /\ page[3] = ErrorLine("RT Dose file not found.")
    /\ page[4].text = "RT Plan Beam Information:"

(***************************************************************************)
(* C4.  With no slice file left after filtering, the loader reports "No    *)
(* valid CT slices found." and returns no volume, and the plan summarizer  *)
(* still runs in that run: the page ends with the beam table or with "RT   *)
(* Plan file not found.".                                                  *)
(***************************************************************************)
C4_PlanShownWithoutSlices ==
    (pc = "done" /\ uploaded_files # <<>> /\ SliceFiles(dir) = {}) =>
        /\ img3d = None
        /\ \E i \in DOMAIN page : page[i] = ErrorLine("No valid CT slices found.")
        /\ \E i \in DOMAIN page :
             page[i].text \in {"RT Plan Beam Information:", "RT Plan file not found."}

(***************************************************************************)
(* C6.  On an unchanged directory of slices of one shape, positions shared *)
(* or not, every enumeration order gives the volume and the aspect ratios  *)
(* this run got.                                                           *)
(***************************************************************************)
C6_ReloadIdentical ==
    (Loaded /\ UniformShapes(dir)) =>
        \A order \in Enumerations[DicomFiles(dir)] :
            /\ LoadResult(dir, order).img3d = img3d
            /\ LoadResult(dir, order).aspects = aspects

(***************************************************************************)
(* C7, as stated.  The aspects come from the first sorted slice: axial =   *)
(* ps[1] / ps[0], sagittal = coronal = 2 * SliceThickness / ps[0].         *)
(***************************************************************************)
C7_AspectsDoubled ==
    Loaded =>
        \E n \in FirstFiles(dir) :
            /\ IsQuotient(aspects[1][1], dir[n].PixelSpacing[2], dir[n].PixelSpacing[1])
            /\ IsQuotient(aspects[1][2], 2 * dir[n].SliceThickness, dir[n].PixelSpacing[1])
            /\ IsQuotient(aspects[1][3], 2 * dir[n].SliceThickness, dir[n].PixelSpacing[1])

(***************************************************************************)
(* C7, amended.  The aspects come from the first sorted slice: axial =     *)
(* ps[1] / ps[0], sagittal = coronal = SliceThickness / ps[0], not         *)
(* doubled; sagittal and coronal are always the same value.                *)
(***************************************************************************)
C7_Aspects ==
    Loaded =>
        /\ aspects[1][2] = aspects[1][3]
        /\ \E n \in FirstFiles(dir) :
             /\ IsQuotient(aspects[1][1], dir[n].PixelSpacing[2], dir[n].PixelSpacing[1])
             /\ IsQuotient(aspects[1][2], dir[n].SliceThickness, dir[n].PixelSpacing[1])
             /\ IsQuotient(aspects[1][3], dir[n].SliceThickness, dir[n].PixelSpacing[1])

\* ct2 at 5 (spacing 1.0 x 1.0, thickness 3.0) sorts before ct1 at 10
\* (spacing 0.5 x 1.0, thickness 2.5): the aspects are 1, 3, 3
C7_Witness ==
    /\ Loaded
    /\ Cardinality(SliceFiles(dir)) >= 2
    /\ \E m, n \in SliceFiles(dir) : dir[m].PixelSpacing # dir[n].PixelSpacing
    /\ aspects[1] = <<(<<1, 1>>), (<<3, 1>>), (<<3, 1>>)>>

(***************************************************************************)
(* C8.  The volume has exactly one plane for every *.dcm file that has     *)
(* SliceLocation and none for a file without it: its depth is the number   *)
(* of files with the attribute; files without it never make the load fail  *)
(* (the loader finds no slice only when no file has the attribute, and     *)
(* stacking fails only on slice files of different shapes).                *)
(***************************************************************************)
C8_OnePlanePerSliceFile ==
    /\ Loaded =>
         LET v == img3d[1]
         IN  /\ v.shape[3] = Cardinality(SliceFiles(dir))
             /\ \E order \in Enumerations[SliceFiles(dir)] :
                  \A i \in 1..v.shape[3] :
                      [r \in 1..v.shape[1] |-> [c \in 1..v.shape[2] |-> v.data[r][c][i]]]
                         = Broadcast(dir[order[i]].pixel_array, v.shape[1], v.shape[2])
    /\ (pc = "done" /\ uploaded_files # <<>> /\ img3d = None) => SliceFiles(dir) = {}
    /\ (pc = "aborted" /\ error = "ValueError") => ~UniformShapes(dir)

\* two slices stacked from a directory that also holds a dose and a plan file
C8_Witness ==
    /\ Loaded
    /\ {"rtdose.dcm", "RTPLAN.dcm"} \subseteq DOMAIN dir
    /\ Cardinality(SliceFiles(dir)) = 2
    /\ Cardinality(DOMAIN dir) = 4
    /\ img3d[1].shape[3] = 2

(***************************************************************************)
(* C9.  For a volume of shape (R, C, N) the indices display_ct_slices      *)
(* returns, the defaults N // 2, R // 2, C // 2 among them, satisfy        *)
(* 0 <= axial < N, 0 <= sagittal < R, 0 <= coronal < C; no extraction on   *)
(* the volume or on the resampled dose grid is out of bounds; each title   *)
(* shows index + 1 out of the axis extent.                                 *)
(***************************************************************************)
C9_IndicesInBounds ==
    /\ error # "IndexError"
    /\ Loaded =>
         LET shape == img3d[1].shape
         IN  /\ shape[3] \div 2 \in 0..(shape[3] - 1)
             /\ shape[1] \div 2 \in 0..(shape[1] - 1)
             /\ shape[2] \div 2 \in 0..(shape[2] - 1)
             /\ \A k \in 1..3 : shape[k] >= 1
    /\ sliders # None =>
         LET shape == img3d[1].shape
             idx == sliders[1]
         IN  /\ 0 <= idx[1] /\ idx[1] < shape[3]
             /\ 0 <= idx[2] /\ idx[2] < shape[1]
             /\ 0 <= idx[3] /\ idx[3] < shape[2]
    /\ Displayed =>
         LET shape == img3d[1].shape
             idx == sliders[1]
         IN  /\ page[2].data[1].title = <<"Axial", idx[1] + 1, shape[3]>>
             /\ page[2].data[2].title = <<"Sagittal", idx[2] + 1, shape[1]>>
             /\ page[2].data[3].title = <<"Coronal", idx[3] + 1, shape[2]>>
    /\ (pc \in {"plan", "done"} /\ Len(page) >= 3 /\ page[3].kind = "pyplot") =>
         LET grid == page[3].data.dose_rescaled
             idx == sliders[1]
         IN  /\ idx[1] < grid[3]
             /\ idx[2] < grid[1]
             /\ idx[3] < grid[2]

\* a 2 x 3 x 3 volume shown at its default indices with the dose overlaid
C9_Witness ==
    /\ pc = "plan"
    /\ img3d[1].shape = <<2, 3, 3>>
    /\ sliders[1] = <<1, 1, 1>>
    /\ page[3].kind = "pyplot"
    /\ page[2].data[1].title = <<"Axial", 2, 3>>

====
